---- MODULE Spec2Model ----
(***************************************************************************)
(* Arduino-Soundbar: serial line reader (serial_listener.py), dispatcher   *)
(* (main.py Controller) and audio engine (audio_player.py).                *)
(*                                                                         *)
(* Strings that the code takes apart (button ids, received lines) are      *)
(* sequences of one-character strings.  A file path is a record            *)
(* [dir, name, ext]: dir is the sequence of directory components (an       *)
(* absolute path starts with the component "/").                           *)
(***************************************************************************)
EXTENDS Integers, Sequences, FiniteSets, TLC

\* ------------------------------------------------------------------ bounds

\* Canonical button ids BTN1 .. BTN<MaxBtn> take part in the checked runs.
MaxBtn == 2

\* At most MaxLines reads of the serial port return bytes.
MaxLines == 2

\* At most MaxListeners SerialListener objects exist at a time.
MaxListeners == 2

\* At most MaxCalls calls of stop() and disconnect() made directly, outside
\* the front end's buttons, are followed.
MaxCalls == 2

\* In the runs with a fixed front end, at most ScenarioLines lines arrive.
ScenarioLines == 3

\* In the runs that grow the channel pool, the ids BTN<DEFAULT_NUM_CHANNELS>
\* .. BTN<MaxPoolBtn> are triggered too.
MaxPoolBtn == 66

\* ------------------------------------------------------- program constants

DEFAULT_NUM_CHANNELS == 64

\* `idx = None` in _get_fixed_channel_for_button
NoneIdx == -1

\* ------------------------------------------------------ python str helpers

IsSpace(c) == c \in {" ", "\n", "\r", "\t"}

IsDigit(c) == c \in {"0", "1", "2", "3", "4", "5", "6", "7", "8", "9"}

DigitVal(c) ==
    CASE c = "0" -> 0 [] c = "1" -> 1 [] c = "2" -> 2 [] c = "3" -> 3
      [] c = "4" -> 4 [] c = "5" -> 5 [] c = "6" -> 6 [] c = "7" -> 7
      [] c = "8" -> 8 [] c = "9" -> 9

\* str.upper() on one character (the letters that occur in the ids used here)
UpperChar(c) ==
    CASE c = "b" -> "B" [] c = "t" -> "T" [] c = "n" -> "N" [] c = "x" -> "X"
      [] OTHER -> c

Upper(s) == [i \in 1..Len(s) |-> UpperChar(s[i])]

StartsWith(s, p) == Len(s) >= Len(p) /\ SubSeq(s, 1, Len(p)) = p

RECURSIVE LStrip(_)
LStrip(s) == IF s # <<>> /\ IsSpace(Head(s)) THEN LStrip(Tail(s)) ELSE s

RECURSIVE RStrip(_)
RStrip(s) ==
    IF s # <<>> /\ IsSpace(s[Len(s)]) THEN RStrip(SubSeq(s, 1, Len(s) - 1)) ELSE s

\* Strip that removes nothing
StripNothing(s) == s

\* str.strip()
Strip(s) == RStrip(LStrip(s))

RECURSIVE DigitsVal(_)
DigitsVal(s) ==
    IF s = <<>> THEN 0 ELSE 10 * DigitsVal(SubSeq(s, 1, Len(s) - 1)) + DigitVal(s[Len(s)])

\* int(str): surrounding whitespace and one sign are accepted, then at least
\* one digit and nothing else; anything else raises ValueError (ok = FALSE).
PyInt(s) ==
    LET t == Strip(s)
        signed == t # <<>> /\ Head(t) \in {"+", "-"}
        d == IF signed THEN Tail(t) ELSE t
    IN  IF d # <<>> /\ \A i \in 1..Len(d) : IsDigit(d[i])
        THEN [ok |-> TRUE,
              val |-> IF signed /\ Head(t) = "-" THEN 0 - DigitsVal(d) ELSE DigitsVal(d)]
        ELSE [ok |-> FALSE, val |-> 0]

\* ------------------------------------------------------------- button ids

RECURSIVE Numeral(_)
\* the decimal numeral of n >= 0, as characters
Numeral(n) ==
    LET d == <<"0", "1", "2", "3", "4", "5", "6", "7", "8", "9">>
    IN  IF n < 10 THEN <<d[n + 1]>> ELSE Numeral(n \div 10) \o <<d[(n % 10) + 1]>>

\* the canonical id "BTN" + N
Btn(n) == <<"B", "T", "N">> \o Numeral(n)

CanonicalIds == {Btn(n) : n \in 1..MaxBtn}

\* ids that are not of the canonical form: no BTN prefix, a lower-case
\* prefix, and a BTN prefix followed by 0
IdX == <<"X">>
IdLower1 == <<"b", "t", "n", "1">>
IdBtn0 == <<"B", "T", "N", "0">>
OtherIds == {IdX, IdLower1, IdBtn0}

ButtonIds == CanonicalIds \cup OtherIds

\* ------------------------------------------------------------------ files

SndDir == <<"/", "snd">>

FileA == [dir |-> SndDir, name |-> "a", ext |-> ".wav"]
FileB == [dir |-> SndDir, name |-> "b", ext |-> ".wav"]
\* exists, but its content cannot be decoded
FileC == [dir |-> SndDir, name |-> "c", ext |-> ".mp3"]
\* does not exist
FileGone == [dir |-> SndDir, name |-> "gone", ext |-> ".wav"]
\* the empty string
NoPath == [dir |-> <<>>, name |-> "", ext |-> ""]

AudioPaths == {FileA, FileB, FileC, FileGone}

\* os.path.isfile
IsFile(p) == p \in {FileA, FileB, FileC}

\* whether pygame.mixer.Sound(p) returns (TRUE) or raises (FALSE)
Decodes(p) == p \in {FileA, FileB}

\* LowerExt that takes every file for a .wav file
LowerExtAlwaysWav(p) == ".wav"

\* os.path.splitext(p)[1].lower()
LowerExt(p) == IF p.ext = ".WAV" THEN ".wav" ELSE p.ext

StopModes == {"SAME", "ANY"}

\* ------------------------------------------------------------------ state

VARIABLES
    pygame_ok,        \* _PYGAME_OK: the import of pygame succeeded
    pygame_inited,    \* _pygame_inited
    sound_cache,      \* _sound_cache: the paths that hold a decoded Sound
    channel_by_btn,   \* _channel_by_btn: button id -> index of its Channel
    num_channels,     \* pygame.mixer.get_num_channels(); 0 before mixer.init
    busy,             \* mixer channel index -> the path of the Sound started
                      \* on it and not stopped since (only busy channels)
    winsound,         \* the file handed to winsound.PlaySound last, or NoPath
    last_audio,       \* the last call into audio_player and what it did
    serial_listener,  \* Controller.serial_listener: 0 (None) or a listener
    button_mappings,  \* Controller.button_mappings
    stop_mode,        \* Controller.stop_mode
    toggle_button_id, \* Controller.toggle_button_id
    stop_mode_var,    \* App.stop_mode_var, shown by the mode label
    toggle_btn_var,   \* App.toggle_btn_var
    audio_folder,     \* App.audio_folder: directory components, <<>> for ""
    listeners,        \* the SerialListener objects, by slot; a slot whose
                      \* record is NewListener holds no object
    gui,              \* where the calling thread is inside stop(), what
                      \* handle_connect or start() returned to it last,
                      \* the direct calls of stop() and disconnect() so far,
                      \* and the mapping it passed to the controller last
    nread,            \* reads of the serial port that returned bytes so far
    toggles,          \* toggle lines handled to the end so far
    delivery          \* history, by listener slot: the trimmed non-empty lines
                      \* read, and the lines line_callback was called with

audio_vars ==
    <<pygame_inited, sound_cache, channel_by_btn, num_channels, busy, winsound,
      last_audio>>

ctrl_vars == <<serial_listener, button_mappings, stop_mode, toggle_button_id>>

app_vars == <<stop_mode_var, toggle_btn_var, audio_folder>>

vars ==
    <<pygame_ok, audio_vars, ctrl_vars, app_vars, listeners, gui, nread, toggles,
      delivery>>

NoChannels == [i \in {} |-> NoPath]
NoAssignment == [b \in {} |-> 0]

NoCall ==
    [op |-> "none", btn |-> <<>>, path |-> NoPath, mode |-> "", outcome |-> "",
     idx |-> NoneIdx]

\* --------------------------------------------------------- audio_player.py

Max(a, b) == IF a >= b THEN a ELSE b

\* _init_pygame: the channel count after the call
InitNumChannels(inited, n) ==
    IF pygame_ok /\ ~inited THEN DEFAULT_NUM_CHANNELS ELSE n

\* EnsureMinChannels that never grows the pool
EnsureMinChannelsNever(min_channels, inited, current) == current

\* _ensure_min_channels: the channel count after the call
EnsureMinChannels(min_channels, inited, current) ==
    IF ~(pygame_ok /\ inited) THEN current
    ELSE IF current < min_channels
         THEN Max(min_channels, DEFAULT_NUM_CHANNELS)
         ELSE current

\* the try block of _get_fixed_channel_for_button: the index parsed from
\* "BTN<number>", or NoneIdx
ParsedIdx(btn_id) ==
    IF StartsWith(Upper(btn_id), <<"B", "T", "N">>)
    THEN LET r == PyInt(SubSeq(btn_id, 4, Len(btn_id)))
         IN  IF r.ok /\ r.val - 1 >= 0 THEN r.val - 1 ELSE NoneIdx
    ELSE NoneIdx

\* the fallback for unexpected ids: len(_channel_by_btn)
FallbackIdx(cb) == Cardinality(DOMAIN cb)

\* NewIdx without the parse of "BTN<number>": every new id takes the next slot
NewIdxNextSlot(btn_id, cb) == FallbackIdx(cb)

\* the index chosen for an id seen for the first time
NewIdx(btn_id, cb) ==
    IF ParsedIdx(btn_id) = NoneIdx THEN FallbackIdx(cb) ELSE ParsedIdx(btn_id)

\* whether the cached Channel is returned
HasChannel(btn_id, cb) == btn_id \in DOMAIN cb

\* _get_fixed_channel_for_button: the index of the Channel returned, the
\* table and the channel count after the call
GetFixedChannelForButton(btn_id, cb, n) ==
    IF HasChannel(btn_id, cb)
    THEN [idx |-> cb[btn_id], cb |-> cb, n |-> n]
    ELSE LET idx == NewIdx(btn_id, cb)
         IN  [idx |-> idx,
              cb |-> [b \in DOMAIN cb \cup {btn_id} |->
                        IF b = btn_id THEN idx ELSE cb[b]],
              n |-> EnsureMinChannels(idx + 1, TRUE, n)]

\* ChannelStop that silences every channel
ChannelStopAll(chans, idx) == NoChannels

\* MixerStop that silences nothing
MixerStopNothing(chans) == chans

\* pygame.mixer.stop(): every channel is silenced
MixerStop(chans) == NoChannels

\* Channel(idx).stop()
ChannelStop(chans, idx) == [i \in DOMAIN chans \ {idx} |-> chans[i]]

\* Channel(idx).play(sound)
ChannelPlay(chans, idx, snd) ==
    [i \in DOMAIN chans \cup {idx} |-> IF i = idx THEN snd ELSE chans[i]]

\* the channels after the stop-then-play of play_audio
StopThenPlay(chans, idx, snd, mode) ==
    IF mode = "ANY"
    THEN ChannelPlay(MixerStop(chans), idx, snd)
    ELSE ChannelPlay(ChannelStop(chans, idx), idx, snd)

\* TableAfterStopAll that drops the cached channels
TableCleared(cb) == NoAssignment

\* the table stop_all_audio leaves
TableAfterStopAll(cb) == cb

\* stop_all_audio()
stop_all_audio ==
    /\ busy' = IF pygame_ok /\ pygame_inited THEN MixerStop(busy) ELSE busy
    /\ channel_by_btn' = TableAfterStopAll(channel_by_btn)
    /\ last_audio' = [NoCall EXCEPT !.op = "stop_all_audio"]
    /\ UNCHANGED <<pygame_inited, sound_cache, num_channels, winsound>>

\* a call of play_audio that started playback on channel idx
Played(btn_id, file_path, mode, idx) ==
    [op |-> "play_audio", btn |-> btn_id, path |-> file_path, mode |-> mode,
     outcome |-> "played", idx |-> idx]

\* a call of play_audio that started nothing on a mixer channel, with what
\* it reports: the outcome and the file
Reported(outcome, file_path) ==
    [NoCall EXCEPT !.op = "play_audio", !.path = file_path, !.outcome = outcome]

\* play_audio that silences the mixer in mode ANY before it looks at the file
play_audio_stopping_first(btn_id, file_path, mode) ==
    LET silenced == IF mode = "ANY" THEN MixerStop(busy) ELSE busy
    IN  IF file_path = NoPath \/ ~IsFile(file_path)
        THEN /\ last_audio' = Reported("fileNotFound", file_path)
             /\ busy' = silenced
             /\ UNCHANGED <<pygame_inited, sound_cache, channel_by_btn,
                            num_channels, winsound>>
        ELSE IF pygame_ok
        THEN /\ pygame_inited' = TRUE
             /\ IF file_path \notin sound_cache /\ ~Decodes(file_path)
                THEN /\ num_channels' = InitNumChannels(pygame_inited, num_channels)
                     /\ last_audio' = Reported("decodeError", file_path)
                     /\ busy' = silenced
                     /\ UNCHANGED <<sound_cache, channel_by_btn, winsound>>
                ELSE LET r == GetFixedChannelForButton(
                                  btn_id, channel_by_btn,
                                  InitNumChannels(pygame_inited, num_channels))
                     IN  /\ sound_cache' = sound_cache \cup {file_path}
                         /\ channel_by_btn' = r.cb
                         /\ num_channels' = r.n
                         /\ busy' = StopThenPlay(busy, r.idx, file_path, mode)
                         /\ last_audio' = Played(btn_id, file_path, mode, r.idx)
                         /\ UNCHANGED winsound
        ELSE /\ IF LowerExt(file_path) = ".wav"
                THEN /\ winsound' = file_path
                     /\ last_audio' = Reported("fallbackPlayed", file_path)
                ELSE /\ winsound' = winsound
                     /\ last_audio' = Reported("unsupported", file_path)
             /\ UNCHANGED <<pygame_inited, sound_cache, channel_by_btn,
                            num_channels, busy>>

\* play_audio(btn_id, file_path, mode)
play_audio(btn_id, file_path, mode) ==
    IF file_path = NoPath \/ ~IsFile(file_path)
    THEN /\ last_audio' = Reported("fileNotFound", file_path)
         /\ UNCHANGED <<pygame_inited, sound_cache, channel_by_btn, num_channels,
                        busy, winsound>>
    ELSE IF pygame_ok
    THEN /\ pygame_inited' = TRUE
         /\ IF file_path \notin sound_cache /\ ~Decodes(file_path)
            THEN /\ num_channels' = InitNumChannels(pygame_inited, num_channels)
                 /\ last_audio' =
                        Reported("decodeError", file_path)
                 /\ UNCHANGED <<sound_cache, channel_by_btn, busy, winsound>>
            ELSE LET r == GetFixedChannelForButton(
                              btn_id, channel_by_btn,
                              InitNumChannels(pygame_inited, num_channels))
                 IN  /\ sound_cache' = sound_cache \cup {file_path}
                     /\ channel_by_btn' = r.cb
                     /\ num_channels' = r.n
                     /\ busy' = StopThenPlay(busy, r.idx, file_path, mode)
                     /\ last_audio' =
                            Played(btn_id, file_path, mode, r.idx)
                     /\ UNCHANGED winsound
    ELSE /\ IF LowerExt(file_path) = ".wav"
            THEN /\ winsound' = file_path
                 /\ last_audio' =
                        Reported("fallbackPlayed", file_path)
            ELSE /\ winsound' = winsound
                 /\ last_audio' =
                        Reported("unsupported", file_path)
         /\ UNCHANGED <<pygame_inited, sound_cache, channel_by_btn, num_channels,
                        busy>>

\* ------------------------------------------------------ front end (gui.py)

\* os.path.isabs
IsAbs(p) == p.dir # <<>> /\ Head(p.dir) = "/"

\* os.path.join(folder, p) for a relative p; join("", p) is p
PathJoin(folder, p) == [p EXCEPT !.dir = folder \o p.dir]

RelA == [dir |-> <<>>, name |-> "a", ext |-> ".wav"]
RelB == [dir |-> <<>>, name |-> "b", ext |-> ".wav"]

\* the mappings the front end passes to the controller
NoMapping == [b \in {} |-> NoPath]
MapAB == (Btn(1) :> RelA @@ Btn(2) :> RelB)
\* one row; get_button_mappings keeps the base name of every row
MapOne == (Btn(1) :> RelB)
Mappings == {MapAB, MapOne}

\* the values of the toggle combobox that are used: "" (disabled) and BTN2
ToggleIds == {<<>>, Btn(2)}

CRLF == <<"\r", "\n">>

\* what one readline() returns when bytes arrived
RawLines == {Btn(1) \o CRLF, Btn(2) \o CRLF, IdX \o CRLF, <<" ">> \o CRLF}

\* App.get_stop_mode
GetStopMode(mode_var) == IF mode_var \in StopModes THEN mode_var ELSE "SAME"

\* App.get_toggle_button_id
GetToggleButtonId(toggle_var) == Strip(toggle_var)

\* App.set_stop_mode: the value of stop_mode_var after the call
SetStopMode(mode_var, mode) == IF mode \in StopModes THEN mode ELSE mode_var

\* ------------------------------------------------------------------ main.py

\* "ANY" if self.stop_mode == "SAME" else "SAME"
Flip(mode) == IF mode = "SAME" THEN "ANY" ELSE "SAME"

\* Controller._sync_toggle_settings_from_gui, reading the given App variables
SyncToggleSettingsFromGui(toggle_var, mode_var) ==
    /\ toggle_button_id' = GetToggleButtonId(toggle_var)
    /\ stop_mode' = GetStopMode(mode_var)

\* handle_update_mappings that stores the paths resolved against a folder
handle_update_mappings_resolving(mappings, toggle_var) ==
    /\ button_mappings' =
          [k \in DOMAIN mappings |-> PathJoin(SndDir, mappings[k])]
    /\ SyncToggleSettingsFromGui(toggle_var, stop_mode_var)

\* Controller.handle_update_mappings
handle_update_mappings(mappings, toggle_var) ==
    /\ button_mappings' = mappings
    /\ SyncToggleSettingsFromGui(toggle_var, stop_mode_var)

\* what is known about the handling of the line a listener delivered last
NoHandling ==
    [line |-> <<>>, toggle0 |-> <<>>, mode0 |-> "", stop_alls |-> 0, plays |-> 0,
     notified |-> <<>>, outcome |-> "none", touched |-> FALSE]

\* SerialListener.__init__
NewListener ==
    [serial |-> "none", stop_flag |-> FALSE, pc |-> "none", msg |-> <<>>,
     mapped |-> NoPath, file_path |-> NoPath, mode |-> "",
     stop_returned |-> FALSE, hl |-> NoHandling]

\* the positions of a listener thread inside line_callback
CallbackPcs ==
    {"cb", "toggle", "flip", "stopall", "notify", "member", "lookup", "resolve",
     "play"}

ThreadAlive(l) == l.pc \notin {"none", "exit"}

\* what the controller and the engine hold, without the records of calls
Effect ==
    <<button_mappings, stop_mode, toggle_button_id, stop_mode_var, pygame_inited,
      sound_cache, channel_by_btn, num_channels, busy, winsound>>

\* listener i moves to pc; its handling record becomes h, and notes whether
\* this step changed what the controller and the engine hold
Moved(i, pc, h) ==
    listeners' =
        [listeners EXCEPT
            ![i] = [@ EXCEPT !.pc = pc,
                             !.hl = [h EXCEPT !.touched = h.touched \/ Effect' # Effect]]]

\* the callback of listener i returns with the given outcome: its locals are
\* gone, the loop goes on at the while test
Returned(i, h, outcome) ==
    listeners' =
        [listeners EXCEPT
            ![i] = [@ EXCEPT !.pc = "while", !.msg = <<>>, !.mapped = NoPath,
                             !.file_path = NoPath, !.mode = "",
                             !.hl = [h EXCEPT !.outcome = outcome,
                                              !.touched = h.touched \/ Effect' # Effect]]]

\* a listener object that nothing references and whose thread is not running
\* is freed: its slot holds no object any more
Collected(ls, ref) ==
    [i \in DOMAIN ls |->
        IF i # ref /\ ~ThreadAlive(ls[i]) THEN NewListener ELSE ls[i]]

FreeSlots == {i \in DOMAIN listeners : listeners[i] = NewListener /\ i # serial_listener}

\* App.connected: the Connect button is enabled while it is False, the
\* Disconnect button while it is True
AppConnected == serial_listener # 0

\* ListenerAfterStart that keeps the listener whose start() failed
ListenerKept(new, ok) == new

\* self.serial_listener after `ok = self.serial_listener.start()` and
\* `if not ok: self.serial_listener = None`
ListenerAfterStart(new, ok) == IF ok THEN new ELSE 0

\* App._on_click_connect, Controller.handle_connect and SerialListener.start:
\* opened tells whether serial.Serial(...) returned or raised
Connect ==
    /\ gui.pc = "idle"
    /\ ~AppConnected
    /\ FreeSlots # {}
    /\ \E m \in Mappings, opened \in BOOLEAN :
          LET new == CHOOSE i \in FreeSlots : \A j \in FreeSlots : i <= j
          IN  /\ handle_update_mappings(m, toggle_btn_var)
              /\ serial_listener' = ListenerAfterStart(new, opened)
              /\ gui' = [gui EXCEPT !.connect = IF opened THEN "ok" ELSE "failed",
                                     !.sent = m]
              /\ listeners' =
                    Collected(
                        IF opened
                        THEN [listeners EXCEPT
                                 ![new] = [NewListener EXCEPT !.serial = "open",
                                                              !.pc = "while"]]
                        ELSE listeners,
                        serial_listener')
    /\ UNCHANGED <<pygame_ok, audio_vars, app_vars, nread, toggles>>

\* App._on_click_disconnect and Controller.handle_disconnect up to the join
\* in SerialListener.stop
DisconnectBegin ==
    /\ gui.pc = "idle"
    /\ AppConnected
    /\ IF serial_listener = 0
       THEN UNCHANGED <<listeners, gui>>
       ELSE /\ listeners' = [listeners EXCEPT ![serial_listener].stop_flag = TRUE]
            /\ gui' = [gui EXCEPT !.pc = "join", !.l = serial_listener]
    /\ UNCHANGED <<pygame_ok, audio_vars, ctrl_vars, app_vars, nread, toggles>>

\* Stopped that leaves the port as it is
StoppedKeepsPort(l) == [l EXCEPT !.stop_returned = TRUE]

\* the listener when stop() returns: `if self._serial and
\* self._serial.is_open: self._serial.close()`, then `self._serial = None`
Stopped(l) == [l EXCEPT !.serial = "none", !.stop_returned = TRUE]

\* StopReturns of a disconnect that also silences the mixer
StopReturnsSilencing ==
    /\ listeners' = Collected([listeners EXCEPT ![gui.l] = Stopped(@)], 0)
    /\ serial_listener' = 0
    /\ gui' = [gui EXCEPT !.pc = "idle", !.l = 0]
    /\ busy' = MixerStop(busy)
    /\ UNCHANGED <<pygame_ok, pygame_inited, sound_cache, channel_by_btn,
                   num_channels, winsound, last_audio, button_mappings,
                   stop_mode, toggle_button_id, app_vars, nread, toggles>>

\* the rest of SerialListener.stop and of handle_disconnect
StopReturns ==
    /\ listeners' = Collected([listeners EXCEPT ![gui.l] = Stopped(@)], 0)
    /\ serial_listener' = 0
    /\ gui' = [gui EXCEPT !.pc = "idle", !.l = 0]
    /\ UNCHANGED <<pygame_ok, audio_vars, button_mappings, stop_mode,
                   toggle_button_id, app_vars, nread, toggles>>

\* the thread is not alive, or join() returns because the thread ended
JoinFinished ==
    /\ gui.pc = "join"
    /\ ~ThreadAlive(listeners[gui.l])
    /\ StopReturns

\* join(timeout=1.0) returns while the thread is still alive
JoinTimeout ==
    /\ gui.pc = "join"
    /\ ThreadAlive(listeners[gui.l])
    /\ StopReturns

\* App._notify_mappings_changed: the mapping rows changed
UpdateMappings ==
    /\ gui.pc = "idle"
    /\ \E m \in Mappings :
          /\ handle_update_mappings(m, toggle_btn_var)
          /\ gui' = [gui EXCEPT !.sent = m]
    /\ UNCHANGED <<pygame_ok, audio_vars, serial_listener, app_vars, listeners,
                   nread, toggles>>

\* the toggle combobox: App._save_toggle_settings
SelectToggle ==
    /\ gui.pc = "idle"
    /\ \E t \in ToggleIds, m \in Mappings :
          /\ toggle_btn_var' = t
          /\ handle_update_mappings(m, t)
          /\ gui' = [gui EXCEPT !.sent = m]
    /\ UNCHANGED <<pygame_ok, audio_vars, serial_listener, stop_mode_var,
                   audio_folder, listeners, nread, toggles>>

\* App._select_audio_folder with a folder chosen
SelectAudioFolder ==
    /\ gui.pc = "idle"
    /\ audio_folder' = SndDir
    /\ \E m \in Mappings :
          /\ handle_update_mappings(m, toggle_btn_var)
          /\ gui' = [gui EXCEPT !.sent = m]
    /\ UNCHANGED <<pygame_ok, audio_vars, serial_listener, stop_mode_var,
                   toggle_btn_var, listeners, nread, toggles>>

GuiStep ==
    \/ Connect
    \/ DisconnectBegin
    \/ JoinFinished
    \/ JoinTimeout
    \/ UpdateMappings
    \/ SelectToggle
    \/ SelectAudioFolder

\* -------------------------------------------- serial_listener.py: _run

\* while not self._stop_flag.is_set()
LoopCheck(i) ==
    /\ listeners[i].pc = "while"
    /\ listeners' =
          Collected(
              [listeners EXCEPT
                  ![i].pc = IF listeners[i].stop_flag THEN "exit" ELSE "read",
                  ![i].hl = NoHandling],
              serial_listener)
    /\ UNCHANGED <<pygame_ok, audio_vars, ctrl_vars, app_vars, gui, nread, toggles>>

\* `if self._serial is None: break`, or readline() on the port stop() closed
ReadClosed(i) ==
    /\ listeners[i].pc = "read"
    /\ listeners[i].serial # "open"
    /\ listeners' = Collected([listeners EXCEPT ![i].pc = "exit"], serial_listener)
    /\ UNCHANGED <<pygame_ok, audio_vars, ctrl_vars, app_vars, gui, nread, toggles>>

\* readline() times out and returns nothing
ReadTimeout(i) ==
    /\ listeners[i].pc = "read"
    /\ listeners[i].serial = "open"
    /\ listeners' = [listeners EXCEPT ![i].pc = "while"]
    /\ UNCHANGED <<pygame_ok, audio_vars, ctrl_vars, app_vars, gui, nread, toggles>>

\* readline() returns bytes, one of raws, while fewer than limit reads did:
\* decode, strip, and call the callback if not empty
ReadBytes(i, limit, raws) ==
    /\ listeners[i].pc = "read"
    /\ listeners[i].serial = "open"
    /\ nread < limit
    /\ nread' = nread + 1
    /\ \E raw \in raws :
          LET line == Strip(raw)
          IN  listeners' =
                 [listeners EXCEPT
                     ![i] = IF line # <<>>
                            THEN [@ EXCEPT !.pc = "cb", !.msg = line]
                            ELSE [@ EXCEPT !.pc = "while"]]
    /\ UNCHANGED <<pygame_ok, audio_vars, ctrl_vars, app_vars, gui, toggles>>

ReadLine(i) == ReadBytes(i, MaxLines, RawLines)

\* ReadError whose except branch goes on with the loop
ReadErrorContinues(i) ==
    /\ listeners[i].pc = "read"
    /\ listeners[i].serial = "open"
    /\ listeners' = [listeners EXCEPT ![i].pc = "while"]
    /\ UNCHANGED <<pygame_ok, audio_vars, ctrl_vars, app_vars, gui, nread, toggles>>

\* readline() raises: the except branch ends the loop
ReadError(i) ==
    /\ listeners[i].pc = "read"
    /\ listeners[i].serial = "open"
    /\ listeners' = Collected([listeners EXCEPT ![i].pc = "exit"], serial_listener)
    /\ UNCHANGED <<pygame_ok, audio_vars, ctrl_vars, app_vars, gui, nread, toggles>>

\* --------------------- main.py: on_serial_line, _handle_arduino_message

\* FirstBranch with the mapping lookup ahead of the toggle test
FirstBranchMember(toggle_id) == "member"

\* `if self.toggle_button_id and ...`: where the handler goes after the first
\* read of the toggle id
FirstBranch(toggle_id) == IF toggle_id # <<>> THEN "toggle" ELSE "member"

\* msg == self.toggle_button_id
IsToggleLine(msg, toggle_id) == msg = toggle_id

\* on_serial_line: app.handle_serial_message(line), then
\* _handle_arduino_message up to the first read of self.toggle_button_id
OnSerialLine(i) ==
    /\ listeners[i].pc = "cb"
    /\ LET msg == Strip(listeners[i].msg)
           h == [NoHandling EXCEPT !.line = msg, !.toggle0 = toggle_button_id,
                                   !.mode0 = stop_mode]
       IN  listeners' =
              [listeners EXCEPT
                  ![i] = IF msg = <<>>
                         THEN [@ EXCEPT !.pc = "while", !.msg = <<>>,
                                        !.hl = [h EXCEPT !.outcome = "empty"]]
                         ELSE [@ EXCEPT !.pc = FirstBranch(toggle_button_id),
                                        !.msg = msg,
                                        !.hl = [h EXCEPT !.outcome = "pending"]]]
    /\ UNCHANGED <<pygame_ok, audio_vars, ctrl_vars, app_vars, gui, nread, toggles>>

\* the second read of self.toggle_button_id, compared with msg
ToggleCompare(i) ==
    /\ listeners[i].pc = "toggle"
    /\ listeners' =
          [listeners EXCEPT
              ![i].pc = IF IsToggleLine(listeners[i].msg, toggle_button_id)
                        THEN "flip" ELSE "member"]
    /\ UNCHANGED <<pygame_ok, audio_vars, ctrl_vars, app_vars, gui, nread, toggles>>

\* Toggled that only ever switches to ANY
ToggledToAny(mode) == "ANY"

\* the mode after the toggle assignment
Toggled(mode) == Flip(mode)

\* self.stop_mode = "ANY" if self.stop_mode == "SAME" else "SAME"
ToggleFlip(i) ==
    /\ listeners[i].pc = "flip"
    /\ stop_mode' = Toggled(stop_mode)
    /\ UNCHANGED <<pygame_ok, audio_vars, serial_listener, button_mappings,
                   toggle_button_id, app_vars, gui, nread, toggles>>
    /\ Moved(i, "stopall", listeners[i].hl)

\* stop_all_audio() of the toggle branch
ToggleStopAll(i) ==
    /\ listeners[i].pc = "stopall"
    /\ stop_all_audio
    /\ UNCHANGED <<pygame_ok, ctrl_vars, app_vars, gui, nread, toggles>>
    /\ Moved(i, "notify", [listeners[i].hl EXCEPT !.stop_alls = @ + 1])

\* self.app.set_stop_mode(self.stop_mode); return
ToggleNotify(i) ==
    /\ listeners[i].pc = "notify"
    /\ stop_mode_var' = SetStopMode(stop_mode_var, stop_mode)
    /\ toggles' = toggles + 1
    /\ UNCHANGED <<pygame_ok, audio_vars, ctrl_vars, toggle_btn_var, audio_folder,
                   gui, nread>>
    /\ Returned(i, [listeners[i].hl EXCEPT !.notified = Append(@, stop_mode)],
                "toggled")

\* IsMapped without the membership test
IsMappedAlways(msg, mappings) == TRUE

\* whether the line is routed to playback
IsMapped(msg, mappings) == msg \in DOMAIN mappings

\* if msg in self.button_mappings ... else: "No audio mapped"
Member(i) ==
    /\ listeners[i].pc = "member"
    /\ UNCHANGED <<pygame_ok, audio_vars, ctrl_vars, app_vars, gui, nread, toggles>>
    /\ IF IsMapped(listeners[i].msg, button_mappings)
       THEN listeners' = [listeners EXCEPT ![i].pc = "lookup"]
       ELSE Returned(i, listeners[i].hl, "unmapped")

\* mapped = self.button_mappings[msg]; a KeyError is caught and reported
Lookup(i) ==
    /\ listeners[i].pc = "lookup"
    /\ UNCHANGED <<pygame_ok, audio_vars, ctrl_vars, app_vars, gui, nread, toggles>>
    /\ IF listeners[i].msg \in DOMAIN button_mappings
       THEN listeners' = [listeners EXCEPT ![i].pc = "resolve",
                                          ![i].mapped = button_mappings[listeners[i].msg]]
       ELSE Returned(i, listeners[i].hl, "error")

\* the path handed to play_audio
ResolvedPath(mapped, folder) ==
    IF IsAbs(mapped) THEN mapped ELSE PathJoin(folder, mapped)

\* if os.path.isabs(mapped) ... else os.path.join(self.app.audio_folder, mapped)
Resolve(i) ==
    /\ listeners[i].pc = "resolve"
    /\ listeners' =
          [listeners EXCEPT
              ![i].pc = "play",
              ![i].file_path = ResolvedPath(listeners[i].mapped, audio_folder)]
    /\ UNCHANGED <<pygame_ok, audio_vars, ctrl_vars, app_vars, gui, nread, toggles>>

\* play_audio(msg, file_path, self.stop_mode)
Play(i) ==
    /\ listeners[i].pc = "play"
    /\ play_audio(listeners[i].msg, listeners[i].file_path, stop_mode)
    /\ UNCHANGED <<pygame_ok, ctrl_vars, app_vars, gui, nread, toggles>>
    /\ Returned(i, [listeners[i].hl EXCEPT !.plays = @ + 1], "trigger")

\* play_audio(msg, file_path, self.stop_mode) up to the call
\* pygame.mixer.Sound(file_path) for a file that is not in the cache and can
\* be decoded: the thread is inside the decoder, which takes time
PlayDecodeBegin(i) ==
    /\ listeners[i].pc = "play"
    /\ listeners[i].file_path # NoPath
    /\ IsFile(listeners[i].file_path)
    /\ pygame_ok
    /\ listeners[i].file_path \notin sound_cache
    /\ Decodes(listeners[i].file_path)
    /\ pygame_inited' = TRUE
    /\ num_channels' = InitNumChannels(pygame_inited, num_channels)
    /\ UNCHANGED <<pygame_ok, sound_cache, channel_by_btn, busy, winsound,
                   last_audio, ctrl_vars, app_vars, gui, nread, toggles>>
    /\ listeners' =
          [listeners EXCEPT
              ![i] = [@ EXCEPT !.pc = "decode", !.mode = stop_mode,
                               !.hl = [@ EXCEPT !.touched = @ \/ Effect' # Effect]]]

\* Sound(file_path) returns: `_sound_cache[file_path] = ...` stores the new
\* Sound, in place of one stored in the meantime, and play_audio goes on with
\* the channel of the button
PlayDecodeEnd(i) ==
    /\ listeners[i].pc = "decode"
    /\ play_audio(listeners[i].msg, listeners[i].file_path, listeners[i].mode)
    /\ UNCHANGED <<pygame_ok, ctrl_vars, app_vars, gui, nread, toggles>>
    /\ Returned(i, [listeners[i].hl EXCEPT !.plays = @ + 1], "trigger")

\* self.app.handle_serial_message(line) raises (Tk's after() called from the
\* listener thread while the main loop is not running): on_serial_line has no
\* try, so the exception leaves line_callback and is caught by the except
\* branch of _run, which ends the loop
NotifyRaises(i) ==
    /\ listeners[i].pc = "cb"
    /\ listeners' =
          Collected(
              [listeners EXCEPT
                  ![i] = [@ EXCEPT !.pc = "exit", !.msg = <<>>,
                                   !.hl = [NoHandling EXCEPT
                                              !.line = Strip(listeners[i].msg),
                                              !.outcome = "raised"]]],
              serial_listener)
    /\ UNCHANGED <<pygame_ok, audio_vars, ctrl_vars, app_vars, gui, nread, toggles>>

\* self.app.set_stop_mode(self.stop_mode) raises, before or after
\* stop_mode_var.set(mode): the except branch of _handle_arduino_message
\* reports it and the callback returns
SetStopModeRaises(i) ==
    /\ listeners[i].pc = "notify"
    /\ stop_mode_var' \in {stop_mode_var, SetStopMode(stop_mode_var, stop_mode)}
    /\ toggles' = toggles + 1
    /\ UNCHANGED <<pygame_ok, audio_vars, ctrl_vars, toggle_btn_var, audio_folder,
                   gui, nread>>
    /\ Returned(i, listeners[i].hl, "error")

\* the steps of a listener thread inside line_callback
CallbackStep(i) ==
    \/ OnSerialLine(i)
    \/ ToggleCompare(i)
    \/ ToggleFlip(i)
    \/ ToggleStopAll(i)
    \/ ToggleNotify(i)
    \/ Member(i)
    \/ Lookup(i)
    \/ Resolve(i)
    \/ Play(i)

\* the steps of a listener thread other than a read that returns bytes
RunStep(i) ==
    \/ LoopCheck(i)
    \/ ReadClosed(i)
    \/ ReadTimeout(i)
    \/ ReadError(i)
    \/ CallbackStep(i)

ListenerStep(i) == ReadLine(i) \/ RunStep(i)

\* ------------------- SerialListener and Controller called directly
\* The caller keeps the listener in the field serial_listener, as the
\* Controller does, and calls start() and stop() on it in any order.

\* SerialListener(port, baud_rate, line_callback)
ApiNew ==
    /\ gui.pc = "idle"
    /\ serial_listener = 0
    /\ FreeSlots # {}
    /\ serial_listener' = CHOOSE i \in FreeSlots : \A j \in FreeSlots : i <= j
    /\ gui' = [gui EXCEPT !.connect = "none"]
    /\ UNCHANGED <<pygame_ok, audio_vars, button_mappings, stop_mode,
                   toggle_button_id, app_vars, listeners, nread, toggles>>

\* SerialListener.start() on a listener without a thread
ApiStart ==
    /\ gui.pc = "idle"
    /\ serial_listener # 0
    /\ listeners[serial_listener].pc = "none"
    /\ \E opened \in BOOLEAN :
          /\ listeners' =
                [listeners EXCEPT
                    ![serial_listener] =
                        IF opened
                        THEN [@ EXCEPT !.serial = "open", !.stop_flag = FALSE,
                                       !.pc = "while", !.stop_returned = FALSE]
                        ELSE [@ EXCEPT !.serial = "none"]]
          /\ gui' = [gui EXCEPT !.connect = IF opened THEN "ok" ELSE "failed"]
    /\ UNCHANGED <<pygame_ok, audio_vars, ctrl_vars, app_vars, nread, toggles>>

\* SerialListener.stop() up to the join
ApiStop ==
    /\ gui.pc = "idle"
    /\ serial_listener # 0
    /\ gui.calls < MaxCalls
    /\ listeners' = [listeners EXCEPT ![serial_listener].stop_flag = TRUE]
    /\ gui' = [gui EXCEPT !.pc = "apijoin", !.l = serial_listener]
    /\ UNCHANGED <<pygame_ok, audio_vars, ctrl_vars, app_vars, nread, toggles>>

\* the rest of SerialListener.stop; the caller keeps the listener
ApiStopReturns ==
    /\ listeners' = [listeners EXCEPT ![gui.l] = Stopped(@)]
    /\ gui' = [gui EXCEPT !.pc = "idle", !.l = 0, !.calls = @ + 1]
    /\ UNCHANGED <<pygame_ok, audio_vars, ctrl_vars, app_vars, nread, toggles>>

\* `if self._thread and self._thread.is_alive()` is false, or join() returns
\* because the thread ended
ApiJoinFinished ==
    /\ gui.pc = "apijoin"
    /\ ~ThreadAlive(listeners[gui.l])
    /\ ApiStopReturns

ApiJoinTimeout ==
    /\ gui.pc = "apijoin"
    /\ ThreadAlive(listeners[gui.l])
    /\ ApiStopReturns

\* the caller lets go of the listener
ApiRelease ==
    /\ gui.pc = "idle"
    /\ serial_listener # 0
    /\ serial_listener' = 0
    /\ listeners' = Collected(listeners, 0)
    /\ gui' = [gui EXCEPT !.calls = 0]
    /\ UNCHANGED <<pygame_ok, audio_vars, button_mappings, stop_mode,
                   toggle_button_id, app_vars, nread, toggles>>

\* Controller.handle_connect called while self.serial_listener holds a
\* listener: the field is overwritten by the new SerialListener, or by None
\* when its start() failed; nothing calls stop() on the listener held before
ConnectAgain ==
    /\ gui.pc = "idle"
    /\ AppConnected
    /\ FreeSlots # {}
    /\ \E m \in Mappings, opened \in BOOLEAN :
          LET new == CHOOSE i \in FreeSlots : \A j \in FreeSlots : i <= j
          IN  /\ handle_update_mappings(m, toggle_btn_var)
              /\ serial_listener' = ListenerAfterStart(new, opened)
              /\ gui' = [gui EXCEPT !.connect = IF opened THEN "ok" ELSE "failed",
                                     !.sent = m]
              /\ listeners' =
                    Collected(
                        IF opened
                        THEN [listeners EXCEPT
                                 ![new] = [NewListener EXCEPT !.serial = "open",
                                                              !.pc = "while"]]
                        ELSE listeners,
                        serial_listener')
    /\ UNCHANGED <<pygame_ok, audio_vars, app_vars, nread, toggles>>

\* Controller.handle_disconnect while self.serial_listener is None
DisconnectIdle ==
    /\ gui.pc = "idle"
    /\ serial_listener = 0
    /\ gui.calls < MaxCalls
    /\ gui' = [gui EXCEPT !.calls = @ + 1]
    /\ UNCHANGED <<pygame_ok, audio_vars, ctrl_vars, app_vars, listeners, nread,
                   toggles>>

\* ------------------------------------------------------- delivery history

NoLines == [read |-> <<>>, called |-> <<>>, triggers |-> <<>>, last_read |-> "none"]

NoDelivery == [i \in 1..MaxListeners |-> NoLines]

\* the history after a step: a slot without an object has none; a read that
\* returned a line that is not empty after strip() adds it to read; the call
\* self.line_callback(line) adds its argument to called; a call of play_audio
\* adds what it was called with and what it did to triggers
Observed ==
    [i \in DOMAIN listeners |->
        IF listeners'[i] = NewListener THEN NoLines
        ELSE IF listeners[i].pc = "read" /\ listeners'[i].pc = "cb"
        THEN [delivery[i] EXCEPT !.read = Append(@, listeners'[i].msg)]
        ELSE IF listeners[i].pc = "cb" /\ listeners'[i].pc # "cb"
        THEN [delivery[i] EXCEPT !.called = Append(@, listeners[i].msg)]
        ELSE IF listeners[i].pc = "play" /\ listeners'[i].pc # "play"
        THEN [delivery[i] EXCEPT !.triggers = Append(@, last_audio')]
        ELSE delivery[i]]

\* the history after a step of listener i that ends its readline() as kind
\* says ("none" at the while test, before the next readline())
ObservedRead(i, kind) ==
    [Observed EXCEPT
        ![i] = IF listeners'[i] = NewListener THEN NoLines
               ELSE [@ EXCEPT !.last_read = kind]]

\* --------------------------------------------------------- specifications

\* Controller.__init__ with the default config.json, nothing played yet
Init ==
    /\ pygame_ok \in BOOLEAN
    /\ pygame_inited = FALSE
    /\ sound_cache = {}
    /\ channel_by_btn = NoAssignment
    /\ num_channels = 0
    /\ busy = NoChannels
    /\ winsound = NoPath
    /\ last_audio = NoCall
    /\ stop_mode_var = "SAME"
    /\ toggle_btn_var = <<>>
    /\ audio_folder = <<>>
    /\ serial_listener = 0
    /\ button_mappings = NoMapping
    /\ stop_mode = GetStopMode("SAME")
    /\ toggle_button_id = GetToggleButtonId(<<>>)
    /\ listeners = [i \in 1..MaxListeners |-> NewListener]
    /\ gui = [pc |-> "idle", l |-> 0, connect |-> "none", calls |-> 0,
              sent |-> NoMapping]
    /\ nread = 0
    /\ toggles = 0
    /\ delivery = NoDelivery

\* the application with pygame installed
InitApp == Init /\ pygame_ok

\* every interleaving of the front-end thread and the listener threads
Next ==
    \/ \E i \in DOMAIN listeners : ListenerStep(i) /\ UNCHANGED delivery
    \/ Connect /\ UNCHANGED delivery
    \/ DisconnectBegin /\ UNCHANGED delivery
    \/ JoinFinished /\ UNCHANGED delivery
    \/ JoinTimeout /\ UNCHANGED delivery
    \/ UpdateMappings /\ UNCHANGED delivery
    \/ SelectToggle /\ UNCHANGED delivery
    \/ SelectAudioFolder /\ UNCHANGED delivery

Spec == InitApp /\ [][Next]_vars

\* no listener is inside the line callback
Quiescent == \A i \in DOMAIN listeners : listeners[i].pc \notin CallbackPcs

OthersQuiescent(i) ==
    \A j \in DOMAIN listeners \ {i} : listeners[j].pc \notin CallbackPcs

\* the handlers run one at a time: a line callback, once entered, runs to its
\* end before the front end or another listener takes a step
NextSeq ==
    \/ \E i \in DOMAIN listeners :
          OthersQuiescent(i) /\ ListenerStep(i) /\ UNCHANGED delivery
    \/ Quiescent /\ Connect /\ UNCHANGED delivery
    \/ Quiescent /\ DisconnectBegin /\ UNCHANGED delivery
    \/ Quiescent /\ JoinFinished /\ UNCHANGED delivery
    \/ Quiescent /\ JoinTimeout /\ UNCHANGED delivery
    \/ Quiescent /\ UpdateMappings /\ UNCHANGED delivery
    \/ Quiescent /\ SelectToggle /\ UNCHANGED delivery
    \/ Quiescent /\ SelectAudioFolder /\ UNCHANGED delivery

SpecSeq == InitApp /\ [][NextSeq]_vars

\* the audio engine driven through its API: play_audio and stop_all_audio
\* called with any button id, file and stop mode
Trigger ==
    /\ \E b \in ButtonIds, p \in AudioPaths, m \in StopModes : play_audio(b, p, m)
    /\ UNCHANGED <<pygame_ok, ctrl_vars, app_vars, listeners, gui, nread, toggles,
                   delivery>>

StopAll ==
    /\ stop_all_audio
    /\ UNCHANGED <<pygame_ok, ctrl_vars, app_vars, listeners, gui, nread, toggles,
                   delivery>>

NextAudio == Trigger \/ StopAll

SpecAudio == Init /\ [][NextAudio]_vars

\* the ids triggered in the runs that grow the pool: BTN1, an id that is not
\* canonical, the last id that fits the default pool and ids above it
PoolIds == {Btn(1), IdX} \cup {Btn(n) : n \in DEFAULT_NUM_CHANNELS..MaxPoolBtn}

PoolPaths == {FileA, FileGone}

\* play_audio called with a button id of PoolIds
PoolTrigger ==
    /\ \E b \in PoolIds, p \in PoolPaths, m \in StopModes : play_audio(b, p, m)
    /\ UNCHANGED <<pygame_ok, ctrl_vars, app_vars, listeners, gui, nread, toggles,
                   delivery>>

NextPool == PoolTrigger \/ StopAll

SpecPool == Init /\ [][NextPool]_vars

\* the listener with its history kept: connect, disconnect and every
\* interleaving of stop() with the listener threads
NextDelivery ==
    \/ \E i \in DOMAIN listeners :
          LoopCheck(i) /\ delivery' = ObservedRead(i, "none")
    \/ \E i \in DOMAIN listeners :
          ReadClosed(i) /\ delivery' = ObservedRead(i, "closed")
    \/ \E i \in DOMAIN listeners :
          ReadTimeout(i) /\ delivery' = ObservedRead(i, "timeout")
    \/ \E i \in DOMAIN listeners :
          /\ ReadLine(i)
          /\ delivery' =
                ObservedRead(i, IF listeners'[i].pc = "cb" THEN "line" ELSE "empty")
    \/ \E i \in DOMAIN listeners :
          ReadError(i) /\ delivery' = ObservedRead(i, "error")
    \/ \E i \in DOMAIN listeners : CallbackStep(i) /\ delivery' = Observed
    \/ Connect /\ delivery' = Observed
    \/ DisconnectBegin /\ delivery' = Observed
    \/ JoinFinished /\ delivery' = Observed
    \/ JoinTimeout /\ delivery' = Observed

SpecDelivery == InitApp /\ [][NextDelivery]_vars

\* the lines the device sends in the runs with a fixed front end
ScenarioRaw == {Btn(1) \o CRLF, Btn(2) \o CRLF}

\* the front end is used until the first line arrives and left alone from
\* then on; up to ScenarioLines lines BTN1 and BTN2 arrive in any order
NextScenario ==
    \/ nread = 0 /\ GuiStep /\ delivery' = Observed
    \/ \E i \in DOMAIN listeners :
          /\ ReadBytes(i, ScenarioLines, ScenarioRaw) \/ RunStep(i)
          /\ delivery' = Observed

SpecScenario == InitApp /\ [][NextScenario]_vars

\* a listener created, started, stopped and released by direct calls, with
\* its thread running in between
NextApi ==
    \/ \E i \in DOMAIN listeners : ListenerStep(i) /\ UNCHANGED delivery
    \/ ApiNew /\ UNCHANGED delivery
    \/ ApiStart /\ UNCHANGED delivery
    \/ ApiStop /\ UNCHANGED delivery
    \/ ApiJoinFinished /\ UNCHANGED delivery
    \/ ApiJoinTimeout /\ UNCHANGED delivery
    \/ ApiRelease /\ UNCHANGED delivery
    \/ DisconnectIdle /\ UNCHANGED delivery

SpecApi == InitApp /\ [][NextApi]_vars

\* every interleaving of the front-end thread and the listener threads, with
\* calls into the front end that may raise
NextFaults ==
    \/ Next
    \/ \E i \in DOMAIN listeners : NotifyRaises(i) /\ UNCHANGED delivery
    \/ \E i \in DOMAIN listeners : SetStopModeRaises(i) /\ UNCHANGED delivery

SpecFaults == InitApp /\ [][NextFaults]_vars

\* every interleaving of the front-end thread and the listener threads, with
\* the time the decoder takes inside play_audio
NextCache ==
    \/ Next
    \/ \E i \in DOMAIN listeners : PlayDecodeBegin(i) /\ UNCHANGED delivery
    \/ \E i \in DOMAIN listeners : PlayDecodeEnd(i) /\ UNCHANGED delivery

SpecCache == InitApp /\ [][NextCache]_vars

\* the controller called directly: handle_connect and handle_disconnect in
\* any order, with the listener threads running in between
NextCtrl ==
    \/ \E i \in DOMAIN listeners : ListenerStep(i) /\ UNCHANGED delivery
    \/ Connect /\ UNCHANGED delivery
    \/ ConnectAgain /\ UNCHANGED delivery
    \/ DisconnectBegin /\ UNCHANGED delivery
    \/ JoinFinished /\ UNCHANGED delivery
    \/ JoinTimeout /\ UNCHANGED delivery
    \/ DisconnectIdle /\ UNCHANGED delivery

SpecCtrl == InitApp /\ [][NextCtrl]_vars

\* ----------------------------------------------------------------- claims

\* what channel i is playing: the path of its sound, or NoPath when idle
ChanState(chans, i) == IF i \in DOMAIN chans THEN chans[i] ELSE NoPath

\* an id of the canonical form "BTN" + N: the prefix, then the decimal numeral
\* of an N >= 1 (digits only, the first of them not 0)
IsCanonical(b) ==
    /\ Len(b) >= 4
    /\ SubSeq(b, 1, 3) = <<"B", "T", "N">>
    /\ \A i \in 4..Len(b) : IsDigit(b[i])
    /\ b[4] # "0"

\* C1: a successful trigger of button b in stop mode SAME leaves the channel
\* of every other button id, canonical or not, in the playing state and with
\* the sound it had before the call.
C1_SameLeavesOtherButtons ==
    [][(last_audio'.outcome = "played" /\ last_audio'.mode = "SAME")
         => \A c \in DOMAIN channel_by_btn' \ {last_audio'.btn} :
               ChanState(busy', channel_by_btn'[c])
                 = ChanState(busy, channel_by_btn'[c])]_vars

\* C2: after a successful trigger of button b in stop mode ANY the only
\* channel playing is b's assigned channel, and it plays this trigger's sound.
C2_AnyLeavesOnlyThisChannel ==
    (last_audio.outcome = "played" /\ last_audio.mode = "ANY")
      => /\ last_audio.btn \in DOMAIN channel_by_btn
         /\ channel_by_btn[last_audio.btn] = last_audio.idx
         /\ DOMAIN busy = {last_audio.idx}
         /\ busy[last_audio.idx] = last_audio.path

\* C2 witness: an ANY trigger has played after another button was assigned a
\* channel by an earlier trigger.
C2_Witness ==
    /\ last_audio.outcome = "played"
    /\ last_audio.mode = "ANY"
    /\ Cardinality(DOMAIN channel_by_btn) >= 2
    /\ Cardinality(sound_cache) >= 2

\* C7: whatever the order in which ids are first seen, canonical id BTN<N>
\* holds channel index N-1, and two distinct canonical ids never hold the
\* same index.
C7_CanonicalIndex ==
    /\ \A n \in 1..MaxBtn :
          Btn(n) \in DOMAIN channel_by_btn => channel_by_btn[Btn(n)] = n - 1
    /\ \A b, c \in DOMAIN channel_by_btn :
          (IsCanonical(b) /\ IsCanonical(c) /\ b # c)
            => channel_by_btn[b] # channel_by_btn[c]

\* C7 witness: a non-canonical id was seen first (it holds index 0) and two
\* canonical ids were assigned after it.
C7_Witness ==
    /\ IdX \in DOMAIN channel_by_btn
    /\ channel_by_btn[IdX] = 0
    /\ Btn(1) \in DOMAIN channel_by_btn
    /\ Btn(2) \in DOMAIN channel_by_btn

\* C8: an assigned id keeps its index in every step, a later trigger of the
\* id plays on that index, and stopAll leaves the table as it was.
C8_AssignmentStable ==
    [][/\ \A b \in DOMAIN channel_by_btn :
             b \in DOMAIN channel_by_btn' /\ channel_by_btn'[b] = channel_by_btn[b]
       /\ (last_audio'.outcome = "played" /\ last_audio'.btn \in DOMAIN channel_by_btn)
             => last_audio'.idx = channel_by_btn[last_audio'.btn]
       /\ last_audio'.op = "stop_all_audio" => channel_by_btn' = channel_by_btn]_vars

\* C8 witness: one id was triggered with two different files and stopAll was
\* called after that; the id is still in the table.
C8_Witness ==
    /\ last_audio.op = "stop_all_audio"
    /\ Cardinality(DOMAIN channel_by_btn) = 1
    /\ Cardinality(sound_cache) = 2

\* C9: the index given to a non-canonical id is held by no other button id,
\* canonical or not, first seen before or after it.
C9_FallbackIndexUnshared ==
    \A b \in DOMAIN channel_by_btn :
        ~IsCanonical(b)
          => \A c \in DOMAIN channel_by_btn \ {b} :
                channel_by_btn[c] # channel_by_btn[b]

\* the handling of a line by listener i ends in this step
Ends(i) == listeners[i].hl.outcome = "pending" /\ listeners'[i].hl.outcome # "pending"

\* the line listener i is handling is the toggle id configured when its
\* handling began
ToggleLine(i) ==
    /\ listeners[i].hl.toggle0 # <<>>
    /\ listeners[i].hl.line = listeners[i].hl.toggle0

\* C3: with a toggle id configured, the handling of every line equal to it
\* flips the controller's stop mode, calls stop_all_audio exactly once and
\* passes the new mode to the front end, which shows it; from SAME an odd
\* number of toggle lines gives ANY and an even number SAME.
C3_ToggleFlipsMode ==
    /\ [][\A i \in DOMAIN listeners :
             (Ends(i) /\ ToggleLine(i))
               => /\ listeners'[i].hl.outcome = "toggled"
                  /\ stop_mode' = Flip(listeners[i].hl.mode0)
                  /\ listeners'[i].hl.stop_alls = 1
                  /\ listeners'[i].hl.notified = <<Flip(listeners[i].hl.mode0)>>
                  /\ stop_mode_var' = Flip(listeners[i].hl.mode0)]_vars
    /\ [](Quiescent => stop_mode = IF toggles % 2 = 0 THEN "SAME" ELSE "ANY")

\* C3 witness: two toggle lines were handled and the mode is SAME again.
C3_Witness == toggles = 2 /\ stop_mode = "SAME" /\ stop_mode_var = "SAME"

\* C4: the handling of a line equal to the configured toggle id calls
\* play_audio not once and starts no playback, also when the id is a key of
\* the button mapping.
C4_ToggleNeverPlays ==
    [][\A i \in DOMAIN listeners :
          (Ends(i) /\ ToggleLine(i))
            => /\ listeners'[i].hl.plays = 0
               /\ last_audio'.op # "play_audio"
               /\ busy' = NoChannels]_vars

\* C4 witness: a toggle line was handled to the end while its id was a key
\* of the button mapping.
C4_Witness ==
    \E i \in DOMAIN listeners :
        /\ listeners[i].hl.outcome = "toggled"
        /\ listeners[i].hl.line \in DOMAIN button_mappings

\* C5: once stop() has returned for a listener, its thread is not inside the
\* line callback (nor about to call it) and its connection is closed.
C5_NoCallbackAfterStop ==
    \A i \in DOMAIN listeners :
        listeners[i].stop_returned
          => listeners[i].pc \notin CallbackPcs /\ listeners[i].serial # "open"

\* C6: while the front end replaces the mapping, the routing of a line never
\* ends in an error and never looks the line up, after a positive membership
\* test, in a mapping that lacks it.
C6_ConsistentRouting ==
    \A i \in DOMAIN listeners :
        /\ listeners[i].hl.outcome # "error"
        /\ listeners[i].pc = "lookup" => listeners[i].msg \in DOMAIN button_mappings

\* C10: the handling of a line that is not the toggle id and not a key of the
\* button mapping ends as unmapped, without a call to play_audio or
\* stop_all_audio, and leaves mode, mapping, channel assignments, cache and
\* playing channels as they were.
C10_UnmappedLineChangesNothing ==
    [][\A i \in DOMAIN listeners :
          (Ends(i) /\ ~ToggleLine(i) /\ listeners[i].hl.line \notin DOMAIN button_mappings)
            => /\ listeners'[i].hl.outcome = "unmapped"
               /\ listeners'[i].hl.plays = 0
               /\ listeners'[i].hl.stop_alls = 0
               /\ ~listeners'[i].hl.touched
               /\ Effect' = Effect
               /\ stop_mode' = listeners[i].hl.mode0]_vars

\* C10 witness: BTN2 arrived while only BTN1 was mapped and a sound was
\* playing; the line ended as unmapped.
C10_Witness ==
    \E i \in DOMAIN listeners :
        /\ listeners[i].hl.outcome = "unmapped"
        /\ listeners[i].hl.line = Btn(2)
        /\ button_mappings = MapOne
        /\ busy # NoChannels

\* the line listener i is handling is a key of the mapping, its value is a
\* relative path and no audio folder is configured
RelativeNoFolder(i) ==
    /\ listeners[i].hl.line \in DOMAIN button_mappings
    /\ ~IsAbs(button_mappings[listeners[i].hl.line])
    /\ audio_folder = <<>>

\* C11: the handling of a non-toggle line that maps to a relative path while
\* no audio folder is configured ends as unmapped, without a call to
\* play_audio.
C11_NoFolderIsUnmapped ==
    [][\A i \in DOMAIN listeners :
          (Ends(i) /\ ~ToggleLine(i) /\ RelativeNoFolder(i))
            => /\ listeners'[i].hl.outcome = "unmapped"
               /\ listeners'[i].hl.plays = 0]_vars

\* a line as the listener forwards it: not empty, no whitespace at its ends
IsTrimmedLine(x) == x # <<>> /\ ~IsSpace(Head(x)) /\ ~IsSpace(x[Len(x)])

\* C12: for every listener the lines given to the callback are the trimmed
\* non-empty lines read, in the order read and each once (the line just read
\* is the only one not yet given); a read that times out or returns an empty
\* line calls nothing and the loop goes on; a line is read only when the
\* callback of every earlier line has returned.
C12_DeliveredInOrder ==
    /\ [](\A i \in DOMAIN listeners :
             /\ delivery[i].read =
                   IF listeners[i].pc = "cb"
                   THEN Append(delivery[i].called, listeners[i].msg)
                   ELSE delivery[i].called
             /\ \A k \in 1..Len(delivery[i].read) : IsTrimmedLine(delivery[i].read[k]))
    /\ [][\A i \in DOMAIN listeners :
             /\ (listeners[i].pc = "read"
                   /\ delivery'[i].last_read \in {"timeout", "empty"})
                  => /\ listeners'[i].pc = "while"
                     /\ delivery'[i].read = delivery[i].read
                     /\ delivery'[i].called = delivery[i].called
             /\ Len(delivery'[i].read) > Len(delivery[i].read)
                  => /\ listeners[i].pc \notin CallbackPcs
                     /\ delivery[i].called = delivery[i].read]_vars

\* C12 witness: a listener read BTN1 and BTN2, gave both to the callback in
\* that order, and its next read timed out.
C12_Witness ==
    \E i \in DOMAIN listeners :
        /\ delivery[i].called = <<Btn(1), Btn(2)>>
        /\ delivery[i].last_read = "timeout"

\* C13: when the last connect failed to open the port, the controller holds
\* no listener reference, the front end is back at idle with the Connect
\* button enabled, and every listener thread still alive belongs to a
\* listener stopped earlier: the failed start created no thread and calls
\* nothing.
C13_FailedOpenLeavesDisconnected ==
    gui.connect = "failed"
      => /\ serial_listener = 0
         /\ ~AppConnected
         /\ gui.pc = "idle"
         /\ \A i \in DOMAIN listeners :
               ThreadAlive(listeners[i]) => listeners[i].stop_flag

\* C13 witness: a connect failed after an earlier session had received a
\* line.
C13_Witness == gui.connect = "failed" /\ nread > 0

\* C14: a listener for which stop() has returned has its stop flag set and
\* holds no connection, whether it was never started, failed to start, was
\* running, or was stopped before; stop() can always return; a stop() on a
\* listener already stopped leaves the listener as it was; and
\* handle_disconnect without a listener changes nothing.
C14_StopIdempotent ==
    /\ [](\A i \in DOMAIN listeners :
             listeners[i].stop_returned
               => listeners[i].stop_flag /\ listeners[i].serial = "none")
    /\ [](gui.pc = "apijoin" => ENABLED (ApiJoinFinished \/ ApiJoinTimeout))
    /\ [][/\ (gui.pc = "idle" /\ gui'.pc = "apijoin"
                /\ listeners[gui'.l].stop_returned)
               => listeners' = listeners
          /\ (gui.pc = "apijoin" /\ gui'.pc = "idle"
                /\ listeners[gui.l].stop_returned)
               => listeners' = listeners
          /\ (gui.pc = "idle" /\ serial_listener = 0 /\ gui'.calls = gui.calls + 1)
               => /\ gui' = [gui EXCEPT !.calls = @ + 1]
                  /\ UNCHANGED <<pygame_ok, audio_vars, ctrl_vars, app_vars,
                                 listeners, nread, toggles>>]_vars

\* C14 witness: start() failed on a listener and stop() has returned on it
\* twice.
C14_Witness ==
    /\ gui.calls = 2
    /\ gui.connect = "failed"
    /\ serial_listener # 0
    /\ listeners[serial_listener].stop_returned
    /\ listeners[serial_listener].pc = "none"

\* C15: after a disconnect and a connect that opened the port, the controller
\* references the new listener only, and the thread of a listener stopped
\* before is not inside the line callback nor about to call it: it delivers
\* no line to the controller any more.
C15_ReconnectLeavesOneListener ==
    (gui.pc = "idle" /\ gui.connect = "ok" /\ serial_listener # 0)
      => /\ listeners[serial_listener].serial = "open"
         /\ ~listeners[serial_listener].stop_returned
         /\ \A i \in DOMAIN listeners \ {serial_listener} :
               listeners[i].pc \notin CallbackPcs

\* C16: the mapping the controller holds is exactly the mapping passed to it
\* last, with the same keys and the relative paths as passed, also after an
\* audio folder was chosen and after lines were routed.
C16_MappingRoundTrip ==
    /\ button_mappings = gui.sent
    /\ \A k \in DOMAIN button_mappings : button_mappings[k].dir = <<>>

\* C16 witness: with a folder chosen and the two-row mapping passed, two
\* lines were routed and the last one played.
C16_Witness ==
    /\ gui.sent = MapAB
    /\ audio_folder = SndDir
    /\ nread = 2
    /\ Quiescent
    /\ last_audio.outcome = "played"

\* the outcomes of a play_audio call that failed on its file
FailedOutcomes == {"fileNotFound", "decodeError"}

\* C17: a play_audio call that fails because the file is missing or cannot
\* be decoded, in mode SAME or ANY, starts and stops nothing and adds no
\* cache entry and no channel assignment; the next call with a file that
\* exists and decodes, for any button, plays.
C17_FailedTriggerNoEffect ==
    [][/\ (last_audio'.op = "play_audio" /\ last_audio'.outcome \in FailedOutcomes)
            => /\ busy' = busy
               /\ sound_cache' = sound_cache
               /\ channel_by_btn' = channel_by_btn
               /\ winsound' = winsound
       /\ (pygame_ok /\ last_audio.outcome \in FailedOutcomes
             /\ last_audio'.op = "play_audio" /\ Decodes(last_audio'.path))
            => /\ last_audio'.outcome = "played"
               /\ busy'[last_audio'.idx] = last_audio'.path]_vars

\* C17 witness: a call failed on a file that does not decode while two
\* buttons were playing.
C17_Witness ==
    /\ last_audio.outcome = "decodeError"
    /\ Cardinality(DOMAIN busy) >= 2

\* C18: with the mapping {BTN1: a.wav, BTN2: b.wav}, the folder holding both
\* files, no toggle id and mode SAME, a listener that was given the lines
\* BTN1, BTN2, BTN1 and is through with them made exactly three play_audio
\* calls, in that order, each with the mapped path resolved against the
\* folder and mode SAME; BTN1's channel plays a.wav and BTN2's channel still
\* plays b.wav.
C18_Btn1Btn2Btn1 ==
    \A i \in DOMAIN listeners :
        (/\ button_mappings = MapAB
         /\ audio_folder = SndDir
         /\ toggle_button_id = <<>>
         /\ delivery[i].called = <<Btn(1), Btn(2), Btn(1)>>
         /\ listeners[i].pc \notin CallbackPcs)
          => /\ delivery[i].triggers =
                   <<Played(Btn(1), FileA, "SAME", 0),
                     Played(Btn(2), FileB, "SAME", 1),
                     Played(Btn(1), FileA, "SAME", 0)>>
             /\ stop_mode = "SAME"
             /\ channel_by_btn = (Btn(1) :> 0 @@ Btn(2) :> 1)
             /\ busy = (0 :> FileA @@ 1 :> FileB)

\* C18 witness: the three lines were handled under that configuration.
C18_Witness ==
    \E i \in DOMAIN listeners :
        /\ button_mappings = MapAB
        /\ audio_folder = SndDir
        /\ toggle_button_id = <<>>
        /\ delivery[i].called = <<Btn(1), Btn(2), Btn(1)>>
        /\ listeners[i].pc = "while"
        /\ Len(delivery[i].triggers) = 3

\* C19: a step of connect or disconnect (the controller's listener reference,
\* the caller's position inside stop() or the result of connect changes)
\* leaves the sound cache, the channel assignments, the channel count and
\* the playing state of every channel as they were.
C19_ConnectLeavesAudio ==
    [][(\/ serial_listener' # serial_listener
        \/ gui'.pc # gui.pc
        \/ gui'.connect # gui.connect)
         => UNCHANGED <<pygame_inited, sound_cache, channel_by_btn, num_channels,
                        busy, winsound>>]_vars

\* C19 witness: a listener was stopped while its thread was still running,
\* a new connect made a second listener, and a sound started before is still
\* playing on its button's channel.
C19_Witness ==
    /\ serial_listener = 2
    /\ gui.pc = "idle"
    /\ gui.connect = "ok"
    /\ listeners[1].stop_returned
    /\ \E b \in DOMAIN channel_by_btn : channel_by_btn[b] \in DOMAIN busy

\* a file with the extension winsound can play, in any letter case
IsWav(p) == p.ext \in {".wav", ".WAV"}

\* C20: without pygame no call creates a channel assignment or a cache entry
\* or changes a mixer channel; what a play_audio call does depends on the
\* file alone, not on the button id or the stop mode: a missing file is
\* reported, an existing .wav file is handed to winsound once, and any other
\* file is reported as unsupported and not played.
C20_FallbackIgnoresButtonAndMode ==
    /\ [](~pygame_ok
            => /\ channel_by_btn = NoAssignment
               /\ sound_cache = {}
               /\ busy = NoChannels
               /\ ~pygame_inited)
    /\ [][(~pygame_ok /\ last_audio'.op = "play_audio")
            => /\ last_audio'.outcome =
                     IF ~IsFile(last_audio'.path) THEN "fileNotFound"
                     ELSE IF IsWav(last_audio'.path) THEN "fallbackPlayed"
                     ELSE "unsupported"
               /\ winsound' = IF last_audio'.outcome = "fallbackPlayed"
                              THEN last_audio'.path ELSE winsound]_vars

\* C20 witness: without pygame a .wav file was handed to winsound and a later
\* call with an .mp3 file was reported as unsupported.
C20_Witness ==
    /\ ~pygame_ok
    /\ last_audio.outcome = "unsupported"
    /\ last_audio.path = FileC
    /\ winsound = FileA

\* C21: once readline() raised in a listener, its thread has ended and calls
\* line_callback no more; the step of the error changes nothing the
\* controller, the front end or the audio engine hold; and a disconnect made
\* afterwards can begin, its join returns at once, and it leaves the
\* controller without a listener and the port closed.
C21_ReadErrorEndsLoop ==
    /\ [](\A i \in DOMAIN listeners :
             delivery[i].last_read = "error" => listeners[i].pc = "exit")
    /\ [][\A i \in DOMAIN listeners :
             /\ delivery[i].last_read = "error"
                  => /\ listeners'[i].pc \in {"exit", "none"}
                     /\ delivery'[i].called = delivery[i].called
                          \/ delivery'[i] = NoLines
             /\ (listeners[i].pc = "read" /\ delivery'[i].last_read = "error")
                  => UNCHANGED <<audio_vars, ctrl_vars, app_vars, gui>>]_vars
    /\ []((gui.pc = "idle" /\ serial_listener # 0
              /\ delivery[serial_listener].last_read = "error")
            => ENABLED DisconnectBegin)
    /\ []((gui.pc = "join" /\ delivery[gui.l].last_read = "error")
            => ENABLED JoinFinished)
    /\ [][(gui.pc = "join" /\ delivery[gui.l].last_read = "error"
             /\ gui'.pc = "idle")
            => /\ serial_listener' = 0
               /\ listeners'[gui.l].serial = "none"
               /\ ~ThreadAlive(listeners'[gui.l])]_vars

\* C21 witness: a listener delivered a line, then its readline() raised, and
\* the disconnect made afterwards is at its join.
C21_Witness ==
    /\ gui.pc = "join"
    /\ delivery[gui.l].last_read = "error"
    /\ delivery[gui.l].called # <<>>
    /\ listeners[gui.l].serial = "open"

\* C22: whatever fails while a listener handles a line, the callback comes
\* back to the loop of its thread: the step that ends the handling leaves the
\* thread at the while test, from where it goes on reading.
C22_FailureConfinedToLine ==
    [][\A i \in DOMAIN listeners :
          (listeners[i].pc \in CallbackPcs /\ listeners'[i].pc \notin CallbackPcs)
            => listeners'[i].pc = "while"]_vars

\* the number N of the canonical id "BTN" + N
BtnNumber(b) == DigitsVal(SubSeq(b, 4, Len(b)))

\* C23: once the mixer is initialised the pool has at least
\* DEFAULT_NUM_CHANNELS channels; no call shrinks it; a call that played
\* leaves more channels than the index it played on; the first assignment of
\* a canonical BTN<N> leaves at least N channels; and every index in the
\* assignment table is below the channel count.
C23_PoolCoversAssignments ==
    /\ [](pygame_inited => num_channels >= DEFAULT_NUM_CHANNELS)
    /\ [](\A b \in DOMAIN channel_by_btn : channel_by_btn[b] < num_channels)
    /\ [][/\ num_channels' >= num_channels
          /\ last_audio'.outcome = "played" => num_channels' > last_audio'.idx
          /\ \A b \in DOMAIN channel_by_btn' \ DOMAIN channel_by_btn :
                IsCanonical(b) => num_channels' >= BtnNumber(b)]_vars

\* C23 witness: BTN<MaxPoolBtn>, above the default pool, plays on its channel,
\* the non-canonical id and BTN1 hold channels too, and the pool has grown to
\* MaxPoolBtn channels.
C23_Witness ==
    /\ Btn(MaxPoolBtn) \in DOMAIN channel_by_btn
    /\ channel_by_btn[Btn(MaxPoolBtn)] = MaxPoolBtn - 1
    /\ {IdX, Btn(1)} \subseteq DOMAIN channel_by_btn
    /\ MaxPoolBtn - 1 \in DOMAIN busy
    /\ num_channels = MaxPoolBtn

\* C24: no step takes a path out of the cache, and a path is decoded once:
\* no thread is inside the decoder for a path that the cache already holds,
\* whose Sound it would replace.
C24_CacheOnlyGrows ==
    /\ [][sound_cache \subseteq sound_cache']_vars
    /\ [](\A i \in DOMAIN listeners :
             listeners[i].pc = "decode" => listeners[i].file_path \notin sound_cache)

\* C25: when the handling of a toggle line ends, whatever the front end did
\* in the meantime, the controller's stop mode is the opposite of what it was
\* when the handling began, and the front end holds and shows the same mode.
C25_ToggleSurvivesUpdate ==
    [][\A i \in DOMAIN listeners :
          (Ends(i) /\ ToggleLine(i) /\ listeners'[i].hl.outcome = "toggled")
            => /\ stop_mode' = Flip(listeners[i].hl.mode0)
               /\ stop_mode_var' = stop_mode']_vars

\* the listeners whose thread is alive on an open port
Delivering == {i \in DOMAIN listeners :
                 ThreadAlive(listeners[i]) /\ listeners[i].serial = "open"}

\* C26: whatever the order of the calls of connect and disconnect, at most
\* one listener has a thread alive on an open port, and stop() has returned
\* for every listener that the controller does not reference.
C26_OneListenerAtATime ==
    /\ Cardinality(Delivering) <= 1
    /\ \A i \in DOMAIN listeners :
          (listeners[i] # NewListener /\ i # serial_listener)
            => listeners[i].stop_returned

====
